---- MODULE Spec2Model ----
(***************************************************************************)
(* Sentence-to-event extraction engine (NlpController, two-tagger variant  *)
(* of src/src/controllers/nlpController.ts, lines 12-471).                 *)
(*                                                                         *)
(* Text is a sequence of one-character strings; offsets are 0-based as in  *)
(* JavaScript (indexOf returns -1 when the value is not found).            *)
(***************************************************************************)
EXTENDS Integers, Sequences, FiniteSets, TLC

(***************************************************************************)
(* Bounds of the model.                                                    *)
(***************************************************************************)
\* longest sentence, in tokens
MaxTokens == 4
\* how many times init() may succeed (each success pushes the rules again)
MaxInits == 2
\* longest list of date-category spans handed to cleanJunkDates on its own
MaxDates == 4

(***************************************************************************)
(* Characters and strings.                                                 *)
(***************************************************************************)
LowerLetters == {"a", "b", "c", "d", "e", "g", "h", "i", "k", "l", "m", "n", "o", "p", "t", "w", "y"}

\* String.prototype.toLowerCase on one character
LowerChar(c) == IF c = "A" THEN "a" ELSE IF c = "E" THEN "e" ELSE c

\* String.prototype.toUpperCase on one character
UpperChar(c) == IF c = "a" THEN "A" ELSE IF c = "e" THEN "E" ELSE c

toLowerCase(s) == [i \in 1..Len(s) |-> LowerChar(s[i])]

\* Misc.isLowerCase(char)
isLowerCase(c) == c \in LowerLetters

\* String.prototype.indexOf: first 0-based offset of v in s, -1 when absent
indexOf(s, v) ==
    LET hits == {i \in 1..(Len(s) - Len(v) + 1) : SubSeq(s, i, i + Len(v) - 1) = v}
    IN  IF hits = {} THEN -1
        ELSE (CHOOSE i \in hits : \A j \in hits : i <= j) - 1

\* s[i] for a 0-based i; "undefined" outside the string
charAt(s, i) == IF i >= 0 /\ i < Len(s) THEN s[i + 1] ELSE "undefined"

\* s.startsWith(v, i) for a 0-based i
startsWithAt(s, v, i) ==
    /\ i >= 0
    /\ i + Len(v) <= Len(s)
    /\ SubSeq(s, i + 1, i + Len(v)) = v

RECURSIVE splitFrom(_, _, _)
\* String.prototype.split(" "): cur is the word being read from position i
splitFrom(s, i, cur) ==
    IF i > Len(s) THEN <<cur>>
    ELSE IF s[i] = " " THEN <<cur>> \o splitFrom(s, i + 1, <<>>)
    ELSE splitFrom(s, i + 1, Append(cur, s[i]))

split(s) == splitFrom(s, 1, <<>>)

\* Array.prototype.last()
last(a) == a[Len(a)]

RECURSIVE joinWords(_)
\* words separated by one space
joinWords(ws) ==
    IF Len(ws) = 0 THEN <<>>
    ELSE IF Len(ws) = 1 THEN ws[1]
    ELSE ws[1] \o <<" ">> \o joinWords(Tail(ws))

Abs(n) == IF n < 0 THEN -n ELSE n

(***************************************************************************)
(* The vocabulary the sentences are written in.                            *)
(***************************************************************************)
W_mon == <<"m", "o", "n">>

W_call == <<"c", "a", "l", "l">>

W_tea == <<"t", "e", "a">>

W_at == <<"a", "t">>

W_Al == <<"A", "l">>

W_al == <<"a", "l">>

W_Ed == <<"E", "d">>

W_ed == <<"e", "d">>

W_plan == <<"p", "l", "a", "n">>

W_book == <<"b", "o", "o", "k">>

W_my == <<"m", "y">>

W_big == <<"b", "i", "g">>

W_two == <<"2">>

W_with == <<"w", "i", "t", "h">>

\* the words of the sentences the engine is run on
Vocabulary == {W_mon, W_call, W_tea, W_at, W_Al, W_plan}

\* the words of the sentences findProperName is run on
NameVocabulary == {W_call, W_at, W_Al, W_al}

RECURSIVE SeqsUpTo(_, _)
\* all sequences over S of length 0..n
SeqsUpTo(S, n) ==
    IF n = 0 THEN {<<>>}
    ELSE LET shorter == SeqsUpTo(S, n - 1)
         IN  shorter \cup {Append(q, x) : q \in {r \in shorter : Len(r) = n - 1}, x \in S}

\* the sentence texts: up to MaxTokens words separated by one space
Texts(vocab) == {joinWords(ws) : ws \in SeqsUpTo(vocab, MaxTokens)}

(***************************************************************************)
(* The pattern files and the tagger (wink-nlp), as trained by loadPatterns.*)
(***************************************************************************)
\* .noun_patterns.txt
parsedNouns == {W_call}

\* .proper_name_patterns.txt: a name, optionally preceded by a preposition
parsedProperNames == {W_al, W_ed}

DateWords == {W_mon}

CardinalWords == {W_two}

VerbWords == {W_plan, W_book}

\* part of speech of one lower-cased token; lower-cased names and date words
\* are tagged as nouns, which is what the walk's two abort guards are for
posOf(w) ==
    IF w \in {W_at, W_with} THEN "ADP"
    ELSE IF w \in VerbWords THEN "VERB"
    ELSE IF w \in CardinalWords THEN "NUM"
    ELSE IF w = W_my THEN "PRON"
    ELSE IF w = W_big THEN "ADJ"
    ELSE "NOUN"

Entity(v, t) == [value |-> v, type |-> t]

RECURSIVE scanMain(_, _)
\* custom entities of the main tagger, leftmost match first, from token i on
scanMain(toks, i) ==
    LET n == Len(toks)
    IN  IF i > n THEN <<>>
        ELSE IF toks[i] = W_at /\ i + 1 <= n /\ toks[i + 1] \in CardinalWords
            THEN <<Entity(joinWords(SubSeq(toks, i, i + 1)), "exactTime")>> \o scanMain(toks, i + 2)
        ELSE IF toks[i] \in DateWords
            THEN <<Entity(toks[i], "date")>> \o scanMain(toks, i + 1)
        ELSE IF posOf(toks[i]) = "VERB" /\ i + 1 <= n /\ posOf(toks[i + 1]) = "NOUN"
            THEN <<Entity(joinWords(SubSeq(toks, i, i + 1)), "intentionalVerb")>> \o scanMain(toks, i + 2)
        ELSE IF posOf(toks[i]) = "VERB" /\ i + 2 <= n /\ posOf(toks[i + 1]) = "ADP"
                /\ posOf(toks[i + 2]) = "NOUN"
            THEN <<Entity(joinWords(SubSeq(toks, i, i + 2)), "intentionalVerb")>> \o scanMain(toks, i + 3)
        ELSE IF toks[i] \in parsedNouns
            THEN <<Entity(toks[i], "eventNoun")>> \o scanMain(toks, i + 1)
        ELSE scanMain(toks, i + 1)

RECURSIVE scanSecondary(_, _)
\* custom entities of the secondary tagger (proper names only)
scanSecondary(toks, i) ==
    LET n == Len(toks)
    IN  IF i > n THEN <<>>
        ELSE IF posOf(toks[i]) = "ADP" /\ i + 1 <= n /\ toks[i + 1] \in parsedProperNames
            THEN <<Entity(joinWords(SubSeq(toks, i, i + 1)), "properName")>> \o scanSecondary(toks, i + 2)
        ELSE IF toks[i] \in parsedProperNames
            THEN <<Entity(toks[i], "properName")>> \o scanSecondary(toks, i + 1)
        ELSE scanSecondary(toks, i + 1)

\* getAuxiliaryStructures: lower-cased text, both taggers' entities, tokens, tags
getAuxiliaryStructures(value) ==
    LET text == toLowerCase(value)
        toks == IF Len(text) = 0 THEN <<>> ELSE split(text)
    IN  [caseInsensitiveText |-> text,
         mainCustomEntities |-> scanMain(toks, 1),
         secondaryCustomEntities |-> scanSecondary(toks, 1),
         tokens |-> toks,
         pos |-> [i \in 1..Len(toks) |-> posOf(toks[i])]]

(***************************************************************************)
(* Candidate filters.                                                      *)
(***************************************************************************)
DateCategoryTypes == {"date", "ordinalDate", "ordinalDateReverse", "timeRange", "exactTime", "duration"}

isDateCategory(e) == e.type \in DateCategoryTypes

isProperName(e) == e.type = "properName"

isEventNoun(e) == e.type = "eventNoun"

isIntentionalVerb(e) == e.type = "intentionalVerb"

\* a mis-typed filter: event nouns pass as dates
filterDatesLoose(customEntities) ==
    SelectSeq(customEntities, LAMBDA e : isDateCategory(e) \/ isEventNoun(e))

filterDates(customEntities) == SelectSeq(customEntities, isDateCategory)

filterProperNames(customEntities) == SelectSeq(customEntities, isProperName)

filterEventNoun(customEntities) == SelectSeq(customEntities, isEventNoun)

(***************************************************************************)
(* Anchor and linking heuristics.                                          *)
(***************************************************************************)
\* let nounDistance = 1000 / verbDistance / properNameDistance
InitialDistance == 1000

NotFound == [value |-> <<>>, index |-> -1, type |-> ""]

RECURSIVE nearestFrom(_, _, _, _, _)
\* the forEach of findEventNoun and findIntentionalVerb: sel is the selection so
\* far and dist its distance from the anchor
nearestFrom(text, cands, anchor, sel, dist) ==
    IF Len(cands) = 0 THEN sel
    ELSE LET c == Head(cands)
             cIndex == indexOf(text, c.value)
             d == Abs(cIndex - anchor)
         IN  IF d < dist
             THEN nearestFrom(text, Tail(cands), anchor,
                              [value |-> c.value, index |-> cIndex, type |-> c.type], d)
             ELSE nearestFrom(text, Tail(cands), anchor, sel, dist)

findEventNoun(text, eventNouns, selectedVerbIndex) ==
    nearestFrom(text, eventNouns, selectedVerbIndex, NotFound, InitialDistance)

\* Array.prototype.indexOf on a sequence, 0-based, -1 when absent
seqIndexOf(a, x) ==
    LET hits == {i \in 1..Len(a) : a[i] = x}
    IN  IF hits = {} THEN -1
        ELSE (CHOOSE i \in hits : \A j \in hits : i <= j) - 1

\* a[i] for a 0-based i; <<"undefined">> spelled out when outside the array
tokenAt(a, i) ==
    IF i >= 0 /\ i < Len(a) THEN a[i + 1]
    ELSE <<"u", "n", "d", "e", "f", "i", "n", "e", "d">>

findIntentionalVerb(customEntities, tokens, pos, text, selectedDateIndex) ==
    LET intentionalVerbs == SelectSeq(customEntities, isIntentionalVerb)
        sel == nearestFrom(text, intentionalVerbs, selectedDateIndex, NotFound, InitialDistance)
        verb == tokenAt(tokens, seqIndexOf(pos, "VERB"))
    IN  IF Len(intentionalVerbs) = 0
        THEN [value |-> <<>>, index |-> -1, type |-> "", noun |-> <<>>]
        ELSE [value |-> sel.value, index |-> sel.index, type |-> sel.type,
              noun |-> verb \o <<" ">> \o last(split(sel.value))]

(***************************************************************************)
(* Person-name resolution.                                                 *)
(***************************************************************************)
\* the locals of findProperName before the forEach; adp = <<>> with
\* adpDefined = FALSE stands for undefined
properNameStart ==
    [value |-> <<>>, index |-> -1, type |-> "", dist |-> InitialDistance,
     hasAdp |-> FALSE, adp |-> <<>>, adpDefined |-> FALSE, thrown |-> FALSE]

\* one iteration of the forEach: hasAdp and adp are shared by
\* all iterations, and adp.length of an undefined adp is a TypeError
properNameStep(text, st, properName, eventNounIndex) ==
    LET pIndex == indexOf(toLowerCase(text), properName.value)
        splitValue == split(properName.value)
        adpDef == Len(splitValue) # 1
        adp == IF adpDef THEN splitValue[1] ELSE <<>>
        hasAdp == st.hasAdp \/ adpDef
        firstChar == IF hasAdp THEN charAt(text, pIndex + Len(adp) + 1) ELSE charAt(text, pIndex)
        d == Abs(pIndex - eventNounIndex)
        seen == [st EXCEPT !.hasAdp = hasAdp, !.adp = adp, !.adpDefined = adpDef]
    IN  IF st.thrown THEN st
        ELSE IF hasAdp /\ ~adpDef THEN [seen EXCEPT !.thrown = TRUE]
        ELSE IF isLowerCase(firstChar) THEN seen
        ELSE IF d < st.dist
            THEN [seen EXCEPT !.value = IF hasAdp THEN splitValue[2] ELSE splitValue[1],
                              !.index = pIndex, !.type = properName.type, !.dist = d]
        ELSE seen

RECURSIVE properNameLoop(_, _, _, _)
properNameLoop(text, st, properNames, eventNounIndex) ==
    IF Len(properNames) = 0 THEN st
    ELSE properNameLoop(text, properNameStep(text, st, Head(properNames), eventNounIndex),
                        Tail(properNames), eventNounIndex)

\* value.charAt(0).toUpperCase() + value.slice(1)
capitalize(v) == IF Len(v) = 0 THEN v ELSE <<UpperChar(v[1])>> \o Tail(v)

NoName == [status |-> "null", value |-> <<>>, index |-> -1, type |-> "", parsedValue |-> <<>>]

\* findProperName: status "ok" with the selected name, "null", or "throw"
findProperName(text, properNames, selectedEventNoun) ==
    LET st == properNameLoop(text, properNameStart, properNames, selectedEventNoun.index)
        cap == capitalize(st.value)
    IN  IF st.thrown THEN [NoName EXCEPT !.status = "throw"]
        ELSE IF st.index = -1 THEN NoName
        ELSE [status |-> "ok", value |-> st.value, index |-> st.index, type |-> st.type,
              parsedValue |-> IF ~st.hasAdp THEN W_with \o <<" ">> \o cap
                              ELSE st.adp \o <<" ">> \o cap]

(***************************************************************************)
(* Title expansion (adjacency walk).                                       *)
(***************************************************************************)
WalkTags == {"NOUN", "ADJ", "ADP", "PRON"}

\* pos[i] for a 0-based i
tagAt(pos, i) == IF i >= 0 /\ i < Len(pos) THEN pos[i + 1] ELSE "undefined"

\* "no attributes": findAdjAttributes returned null
NoAttributes == [null |-> TRUE, items |-> <<>>]

\* the guard left out: a word of the person's name is collected as an attribute
isPersonNameNever(selectedProperName, adjWord) == FALSE

\* selectedProperName != null && adjWord == selectedProperName.value, line 289
isPersonName(selectedProperName, adjWord) == selectedProperName.status = "ok" /\ adjWord = selectedProperName.value

\* selectedAdjAttributedIndex == selectedDateIndex, line 292
isDateAnchor(selectedAdjAttributedIndex, selectedDateIndex) == selectedAdjAttributedIndex = selectedDateIndex

RECURSIVE adjWalk(_, _, _, _, _, _, _, _, _, _)
\* the while loop of findAdjAttributes: adjOffset is the signed distance from the
\* event noun's token, acc the attributes collected so far
adjWalk(stringTokens, pos, tokenIndex, selectedProperName, eventNounIndex, selectedDateIndex, backward, adjOffset, cumulativeIndex, acc) ==
    LET tag == tagAt(pos, tokenIndex + adjOffset)
        adjWord == tokenAt(stringTokens, tokenIndex + adjOffset)
        attrIndex == cumulativeIndex +
                     (IF backward THEN eventNounIndex - (Len(adjWord) + 1)
                      ELSE eventNounIndex + (Len(adjWord) + 1))
    IN  IF tag \notin WalkTags THEN [null |-> FALSE, items |-> acc]
        ELSE IF isPersonName(selectedProperName, adjWord) THEN NoAttributes
        ELSE IF isDateAnchor(attrIndex, selectedDateIndex) THEN NoAttributes
        ELSE adjWalk(stringTokens, pos, tokenIndex, selectedProperName, eventNounIndex,
                     selectedDateIndex, backward,
                     IF backward THEN adjOffset - 1 ELSE adjOffset + 1,
                     attrIndex,
                     Append(acc, [value |-> adjWord, index |-> attrIndex, type |-> tag]))

RECURSIVE popTrailing(_)
\* the last element can't be an ADP or a PRON
popTrailing(attrs) ==
    IF Len(attrs) > 0 /\ attrs[Len(attrs)].type \in {"ADP", "PRON"}
    THEN popTrailing(SubSeq(attrs, 1, Len(attrs) - 1))
    ELSE attrs

findAdjAttributes(tokens, pos, selectedEventNoun, selectedProperName, eventNounIndex, selectedDateIndex, backward) ==
    LET eventNounTokenIndex == seqIndexOf(tokens, selectedEventNoun.value)
        walked == adjWalk(tokens, pos, eventNounTokenIndex, selectedProperName,
                          eventNounIndex, selectedDateIndex, backward,
                          IF backward THEN -1 ELSE 1, 0, <<>>)
        kept == popTrailing(walked.items)
    IN  IF eventNounTokenIndex <= 0 THEN NoAttributes
        ELSE IF walked.null THEN NoAttributes
        ELSE IF Len(kept) = 0 THEN NoAttributes
        ELSE [null |-> FALSE, items |-> kept]

(***************************************************************************)
(* Date cleanup.                                                           *)
(***************************************************************************)
dateComponentPatterns == {"date", "ordinalDate", "ordinalDateReverse"}

timePatterns == {"exactTime", "timeRange"}

cleanJunkDates(dates) ==
    LET dateComponents == SelectSeq(dates, LAMBDA d : d.type \in dateComponentPatterns)
        times == SelectSeq(dates, LAMBDA t : t.type \in timePatterns)
        afterDates ==
            IF Len(dateComponents) > 1
            THEN SelectSeq(dates, LAMBDA d : d.type \in timePatterns
                                              \/ d.value = dateComponents[1].value)
            ELSE dates
    IN  IF Len(times) > 1
        THEN SelectSeq(afterDates, LAMBDA d : d.type \in dateComponentPatterns
                                               \/ d.value = times[1].value)
        ELSE afterDates

(***************************************************************************)
(* Selection assembly and event title.                                     *)
(***************************************************************************)
RECURSIVE insertByIndex(_, _)
\* x goes after every element whose index is not greater (a stable sort)
insertByIndex(sorted, x) ==
    IF Len(sorted) = 0 THEN <<x>>
    ELSE IF Head(sorted).index <= x.index
        THEN <<Head(sorted)>> \o insertByIndex(Tail(sorted), x)
    ELSE <<x>> \o sorted

RECURSIVE sortByIndex(_)
\* selection.sort((a, b) => a.index - b.index)
sortByIndex(a) ==
    IF Len(a) = 0 THEN <<>>
    ELSE insertByIndex(sortByIndex(SubSeq(a, 1, Len(a) - 1)), a[Len(a)])

\* the pushes of getSelectionArray, before the selection is ordered
pushSelection(text, dates, selectedEventNoun, backwardsAdjAttributes, forwardAdjAttributes, selectedProperName) ==
    [i \in 1..Len(dates) |->
        [value |-> dates[i].value, index |-> indexOf(text, dates[i].value), type |-> dates[i].type]]
    \o <<selectedEventNoun>>
    \o (IF selectedProperName.status = "ok"
        THEN <<[value |-> selectedProperName.value, index |-> selectedProperName.index,
                type |-> selectedProperName.type]>>
        ELSE <<>>)
    \o (IF backwardsAdjAttributes.null THEN <<>> ELSE backwardsAdjAttributes.items)
    \o (IF forwardAdjAttributes.null THEN <<>> ELSE forwardAdjAttributes.items)

\* the sort left out: the selection is returned in the order it was pushed
getSelectionArrayUnsorted(text, dates, selectedEventNoun, backwardsAdjAttributes, forwardAdjAttributes, selectedProperName) ==
    pushSelection(text, dates, selectedEventNoun, backwardsAdjAttributes,
                  forwardAdjAttributes, selectedProperName)

getSelectionArray(text, dates, selectedEventNoun, backwardsAdjAttributes, forwardAdjAttributes, selectedProperName) ==
    sortByIndex(pushSelection(text, dates, selectedEventNoun, backwardsAdjAttributes,
                              forwardAdjAttributes, selectedProperName))

\* Array.prototype.reverse
reverse(a) == [i \in 1..Len(a) |-> a[Len(a) + 1 - i]]

RECURSIVE eachWithSpace(_)
\* eventTitle += `${attribute.value} ` for each attribute
eachWithSpace(attrs) ==
    IF Len(attrs) = 0 THEN <<>>
    ELSE Head(attrs).value \o <<" ">> \o eachWithSpace(Tail(attrs))

getEventTitle(backwardsAdjAttributes, forwardAdjAttributes, selectedEventNoun, selectedProperName) ==
    (IF backwardsAdjAttributes.null THEN <<>>
     ELSE eachWithSpace(reverse(backwardsAdjAttributes.items)))
    \o selectedEventNoun.value
    \o (IF forwardAdjAttributes.null THEN <<>>
        ELSE <<" ">> \o eachWithSpace(forwardAdjAttributes.items))
    \o (IF selectedProperName.status = "ok"
        THEN <<" ">> \o selectedProperName.parsedValue
        ELSE <<>>)

(***************************************************************************)
(* The collaborators' answers: eventController and smartDateParser.        *)
(***************************************************************************)
\* no event: syntacticCheck / semanticCheck returned null
Null == [id |-> "null", processed |-> FALSE]

\* the events the identity collaborator may already hold
ExistingEvents == {[id |-> "E1", processed |-> FALSE], [id |-> "E2", processed |-> TRUE]}

\* what createNewEvent returns
NewEvent == [id |-> "new", processed |-> FALSE]

CheckAnswers == {Null} \cup ExistingEvents

\* smartDateParser.getDates returned undefined
NoRange == [defined |-> FALSE, start |-> "", end |-> ""]

SomeRange == [defined |-> TRUE, start |-> "d1", end |-> "d2"]

RangeAnswers == {NoRange, SomeRange}

\* readFileSync + JSON.parse of the two pattern files
FileStatus == {"ok", "missing", "malformed"}

(***************************************************************************)
(* State.                                                                  *)
(***************************************************************************)
VARIABLES
    ready,                    \* _ready
    pluginPath,               \* _pluginPath: "unset" or "set"
    customPatterns,           \* _customPatterns, as the names of the rules
    secondaryCustomPatterns,  \* _secondaryCustomPatterns
    mainLearned,              \* the rules _mainNLP was last trained with
    secondaryLearned,         \* the rules _secondaryNLP was last trained with
    sentence,                 \* the caller's Sentence
    ret,                      \* what the last call did and returned
    args,                     \* arguments of a helper run on its own
    out                       \* and what it returned

vars == <<ready, pluginPath, customPatterns, secondaryCustomPatterns, mainLearned,
          secondaryLearned, sentence, ret, args, out>>

engineVars == <<ready, pluginPath, customPatterns, secondaryCustomPatterns, mainLearned,
                secondaryLearned>>

\* a Sentence as the caller built it: no semantic fields yet
NewSentence(value) ==
    [value |-> value, injected |-> FALSE, startDate |-> "", endDate |-> "", eventNoun |-> <<>>]

\* nothing was called yet
NoCall ==
    [op |-> "new", outcome |-> "none", warned |-> FALSE, calls |-> <<>>, selection |-> <<>>,
     event |-> Null, syn |-> Null, sem |-> Null, range |-> NoRange]

\* the rules loadPatterns pushes on _customPatterns, in order
MainRules ==
    <<"date", "ordinalDate", "ordinalDateReverse", "timeRange", "exactTime",
      "intentionalVerb", "purpose", "eventNoun">>

SecondaryRules == <<"properName">>

(***************************************************************************)
(* process(sentence).                                                      *)
(***************************************************************************)
\* the guard left out: a not-ready engine goes on to process
notReadyNever(r) == FALSE

\* if(!this._ready)
notReady(r) == ~r

\* the short-circuit left out: an already processed event is extracted again
syntacticMatchNever(matchedEvent) == FALSE

\* matchedEvent != null && matchedEvent.processed == true, after the syntactic check
syntacticMatchProcessed(matchedEvent) == matchedEvent # Null /\ matchedEvent.processed = TRUE

\* matchedEvent != null && matchedEvent.processed == true, after the semantic check
matchProcessed(matchedEvent) == matchedEvent # Null /\ matchedEvent.processed = TRUE

\* dates.length == 0
noDates(dates) == Len(dates) = 0

\* the range check left out: an undefined range goes on to the identity checks
noRangeNever(dateRange) == FALSE

\* dateRange == undefined
noRange(dateRange) == dateRange = NoRange

\* the guard left out: the sentence is re-keyed and checked semantically even
\* when the syntactic check matched
semanticCheckAskedAlways(matchedEvent) == TRUE

\* if(matchedEvent == null), line 151: inject, title and semantic check
semanticCheckAsked(matchedEvent) == matchedEvent = Null

\* the test inverted: an event is created when one was matched
needsNewEventOnMatch(matchedEvent) == matchedEvent # Null

\* an event is created whatever the semantic check answered
needsNewEventAlways(matchedEvent) == TRUE

\* no event is ever created
needsNewEventNever(matchedEvent) == FALSE

\* matchedEvent == null, after the semantic check
needsNewEvent(matchedEvent) == matchedEvent = Null

\* sentence.injectSemanticFields(start, end, eventNoun); sentence.eventNoun = eventTitle
injectSemanticFields(sent, dateRange, eventTitle) ==
    [sent EXCEPT !.injected = TRUE, !.startDate = dateRange.start,
                 !.endDate = dateRange.end, !.eventNoun = eventTitle]

\* process, lines 119-131: the date anchor, the nearest event noun and, when
\* there is none, the intentional-verb fallback; null stands for return null
selectEventNoun(aux, dates) ==
    LET text == aux.caseInsensitiveText
        eventNouns == filterEventNoun(aux.mainCustomEntities)
        selectedDateIndex == indexOf(text, dates[1].value)
        directNoun == findEventNoun(text, eventNouns, selectedDateIndex)
        selectedIntentionalVerb ==
            findIntentionalVerb(aux.mainCustomEntities, aux.tokens, aux.pos, text, selectedDateIndex)
    IN  IF directNoun.index # -1
        THEN [null |-> FALSE, viaVerb |-> FALSE, selectedDateIndex |-> selectedDateIndex,
              selectedEventNoun |-> directNoun]
        ELSE IF selectedIntentionalVerb.index = -1
            THEN [null |-> TRUE, viaVerb |-> TRUE, selectedDateIndex |-> selectedDateIndex,
                  selectedEventNoun |-> NotFound]
        ELSE [null |-> FALSE, viaVerb |-> TRUE, selectedDateIndex |-> selectedDateIndex,
              selectedEventNoun |-> [value |-> selectedIntentionalVerb.noun,
                                     index |-> indexOf(text, selectedIntentionalVerb.noun),
                                     type |-> "eventNoun"]]

\* the sentence elements process() computes once the event noun is selected
\* (lines 133-143), and the title of line 153
extractFrom(value, aux, dates, sel) ==
    LET text == aux.caseInsensitiveText
        properNames == filterProperNames(aux.secondaryCustomEntities)
        selectedEventNoun == sel.selectedEventNoun
        selectedDateIndex == sel.selectedDateIndex
        selectedProperName == findProperName(value, properNames, selectedEventNoun)
        backwardsAdjAttributes ==
            findAdjAttributes(aux.tokens, aux.pos, selectedEventNoun, selectedProperName,
                              selectedEventNoun.index, selectedDateIndex, TRUE)
        forwardAdjAttributes ==
            findAdjAttributes(aux.tokens, aux.pos, selectedEventNoun, selectedProperName,
                              selectedEventNoun.index, selectedDateIndex, FALSE)
        cleanDates == cleanJunkDates(dates)
    IN  IF sel.null THEN [status |-> "noNoun"]
        ELSE IF selectedProperName.status = "throw" THEN [status |-> "throw"]
        ELSE [status |-> "ok",
              selection |-> getSelectionArray(text, cleanDates, selectedEventNoun,
                                              backwardsAdjAttributes, forwardAdjAttributes,
                                              selectedProperName),
              eventTitle |-> getEventTitle(backwardsAdjAttributes, forwardAdjAttributes,
                                           selectedEventNoun, selectedProperName),
              viaVerb |-> sel.viaVerb,
              person |-> selectedProperName.status = "ok",
              backward |-> IF backwardsAdjAttributes.null THEN 0
                           ELSE Len(backwardsAdjAttributes.items),
              forward |-> IF forwardAdjAttributes.null THEN 0
                          ELSE Len(forwardAdjAttributes.items)]

\* the sentence elements process() computes from the text (lines 104-143)
extract(value) ==
    LET aux == getAuxiliaryStructures(value)
        dates == filterDates(aux.mainCustomEntities)
    IN  IF noDates(dates) THEN [status |-> "noDate"]
        ELSE extractFrom(value, aux, dates, selectEventNoun(aux, dates))

\* readDoc retrains the tagger: the learned rules are gone after a document is read
readDocForgets(learned) == <<>>

\* _mainNLP.readDoc / _secondaryNLP.readDoc (lines 188-189): what the tagger has
\* learned is as it was after a document is read
readDoc(learned) == learned

\* what one call of process() returns and leaves in the sentence, given the
\* sentence elements ex and the answers the collaborators would give if asked;
\* read tells whether the call got as far as getAuxiliaryStructures (line 104)
processCall(r, sent, ex, syn, sem, range) ==
    LET base == [NoCall EXCEPT !.op = "process"]
        asked == [base EXCEPT !.calls = <<"syntacticCheck">>, !.syn = syn]
        parsed == [asked EXCEPT !.calls = <<"syntacticCheck", "parse">>, !.range = range]
        injected == injectSemanticFields(sent, range, ex.eventTitle)
        matchedEvent == IF semanticCheckAsked(syn) THEN sem ELSE syn
        checked ==
            IF semanticCheckAsked(syn)
            THEN [parsed EXCEPT !.calls = Append(parsed.calls, "semanticCheck"), !.sem = sem]
            ELSE parsed
        after == IF semanticCheckAsked(syn) THEN injected ELSE sent
    IN  IF notReady(r)
        THEN [ret |-> [base EXCEPT !.outcome = "null", !.warned = TRUE], sentence |-> sent,
              read |-> FALSE]
        ELSE IF syntacticMatchProcessed(syn)
            THEN [ret |-> [asked EXCEPT !.outcome = "null"], sentence |-> sent, read |-> FALSE]
        ELSE IF ex.status \in {"noDate", "noNoun"}
            THEN [ret |-> [asked EXCEPT !.outcome = "null"], sentence |-> sent, read |-> TRUE]
        ELSE IF ex.status = "throw"
            THEN [ret |-> [asked EXCEPT !.outcome = "throw"], sentence |-> sent, read |-> TRUE]
        ELSE IF noRange(range)
            THEN [ret |-> [parsed EXCEPT !.outcome = "undefined"], sentence |-> sent,
                  read |-> TRUE]
        ELSE IF matchProcessed(matchedEvent)
            THEN [ret |-> [checked EXCEPT !.outcome = "null"], sentence |-> after, read |-> TRUE]
        ELSE IF needsNewEvent(matchedEvent)
            THEN [ret |-> [checked EXCEPT !.outcome = "result",
                                          !.calls = Append(checked.calls, "createNewEvent"),
                                          !.selection = ex.selection, !.event = NewEvent],
                  sentence |-> after, read |-> TRUE]
        ELSE [ret |-> [checked EXCEPT !.outcome = "result", !.selection = ex.selection,
                                      !.event = matchedEvent],
              sentence |-> after, read |-> TRUE]

(***************************************************************************)
(* The engine's public surface.                                            *)
(***************************************************************************)
\* the constructor, and a sentence of the caller's
Init ==
    /\ ready = FALSE
    /\ pluginPath = "unset"
    /\ customPatterns = <<>>
    /\ secondaryCustomPatterns = <<>>
    /\ mainLearned = <<>>
    /\ secondaryLearned = <<>>
    /\ sentence \in {NewSentence(t) : t \in Texts(Vocabulary)}
    /\ ret = NoCall
    /\ args = <<>>
    /\ out = <<>>

injectPath ==
    /\ pluginPath' = "set"
    /\ ret' = [NoCall EXCEPT !.op = "injectPath"]
    /\ UNCHANGED <<ready, customPatterns, secondaryCustomPatterns, mainLearned,
                   secondaryLearned, sentence, args, out>>

\* only the noun file is looked at: a bad proper-name file goes unnoticed
loadPatternsThrowsNounOnly(path, nounFile, properNameFile) == path # "set" \/ nounFile # "ok"

\* loadPatterns, lines 50-56: readFileSync and JSON.parse of .noun_patterns.txt,
\* then of .proper_name_patterns.txt; either throws on a missing or malformed
\* file, and both come before the first learnCustomEntities and the first push
loadPatternsThrows(path, nounFile, properNameFile) == path # "set" \/ nounFile # "ok" \/ properNameFile # "ok"

\* init(): an exception of loadPatterns propagates before anything is stored
init(nounFile, properNameFile) ==
    IF ~loadPatternsThrows(pluginPath, nounFile, properNameFile)
    THEN /\ Len(secondaryCustomPatterns) < MaxInits
         /\ customPatterns' = customPatterns \o MainRules
         /\ secondaryCustomPatterns' = secondaryCustomPatterns \o SecondaryRules
         /\ mainLearned' = customPatterns'
         /\ secondaryLearned' = secondaryCustomPatterns'
         /\ ready' = TRUE
         /\ ret' = [NoCall EXCEPT !.op = "init", !.outcome = "ok"]
         /\ UNCHANGED <<pluginPath, sentence, args, out>>
    ELSE /\ ret' = [NoCall EXCEPT !.op = "init", !.outcome = "throw"]
         /\ UNCHANGED <<engineVars, sentence, args, out>>

process ==
    \E ex \in {extract(sentence.value)} :
       \E syn \in CheckAnswers, sem \in CheckAnswers, range \in RangeAnswers :
          \E res \in {processCall(ready, sentence, ex, syn, sem, range)} :
             /\ ret' = res.ret
             /\ sentence' = res.sentence
             /\ mainLearned' = IF res.read THEN readDoc(mainLearned) ELSE mainLearned
             /\ secondaryLearned' = IF res.read THEN readDoc(secondaryLearned)
                                    ELSE secondaryLearned
             /\ UNCHANGED <<ready, pluginPath, customPatterns, secondaryCustomPatterns, args, out>>

Next ==
    \/ injectPath
    \/ \E nounFile \in FileStatus, properNameFile \in FileStatus : init(nounFile, properNameFile)
    \/ process

Spec == Init /\ [][Next]_vars

(***************************************************************************)
(* cleanJunkDates and findProperName run on their own.                     *)
(***************************************************************************)
\* the values and types of the date-category spans handed to cleanJunkDates
DateSpans ==
    {Entity(v, t) : v \in {W_mon, W_two},
                    t \in {"date", "ordinalDate", "exactTime", "timeRange", "duration"}}

InitEngineIdle ==
    /\ ready = FALSE
    /\ pluginPath = "unset"
    /\ customPatterns = <<>>
    /\ secondaryCustomPatterns = <<>>
    /\ mainLearned = <<>>
    /\ secondaryLearned = <<>>
    /\ sentence = NewSentence(<<>>)
    /\ ret = NoCall

InitClean ==
    /\ InitEngineIdle
    /\ args \in {[dates |-> d] : d \in SeqsUpTo(DateSpans, MaxDates)}
    /\ out = [done |-> FALSE, cleanDates |-> <<>>]

cleanStep ==
    /\ ~out.done
    /\ out' = [done |-> TRUE, cleanDates |-> cleanJunkDates(args.dates)]
    /\ UNCHANGED <<engineVars, sentence, ret, args>>

NextClean == cleanStep

SpecClean == InitClean /\ [][NextClean]_vars

InitName ==
    /\ InitEngineIdle
    /\ args \in {[text |-> t,
                  properNames |-> getAuxiliaryStructures(t).secondaryCustomEntities,
                  selectedEventNoun |-> [value |-> W_call,
                                         index |-> indexOf(toLowerCase(t), W_call),
                                         type |-> "eventNoun"]] :
                 t \in Texts(NameVocabulary)}
    /\ out = [done |-> FALSE, selectedProperName |-> NoName]

nameStep ==
    /\ ~out.done
    /\ out' = [done |-> TRUE,
               selectedProperName |->
                   findProperName(args.text, args.properNames, args.selectedEventNoun)]
    /\ UNCHANGED <<engineVars, sentence, ret, args>>

NextName == nameStep

SpecName == InitName /\ [][NextName]_vars

(***************************************************************************)
(* init() against the pattern files as they are on disk.                   *)
(***************************************************************************)
\* the words of the sentences processed around init()
InitVocabulary == {W_mon, W_call}

\* the plugin directory: the state of .noun_patterns.txt and .proper_name_patterns.txt
Disks == [nounFile : FileStatus, properNameFile : FileStatus]

\* the constructor, a sentence of the caller's, and the files on disk in args
InitDisk ==
    /\ ready = FALSE
    /\ pluginPath = "unset"
    /\ customPatterns = <<>>
    /\ secondaryCustomPatterns = <<>>
    /\ mainLearned = <<>>
    /\ secondaryLearned = <<>>
    /\ sentence \in {NewSentence(t) : t \in Texts(InitVocabulary)}
    /\ ret = NoCall
    /\ args \in Disks
    /\ out = <<>>

\* init() reading the two files as they are on disk
initFromDisk == init(args.nounFile, args.properNameFile)

\* a pattern file is written, broken or deleted between two calls
writeFiles ==
    /\ \E d \in Disks : d # args /\ args' = d
    /\ UNCHANGED <<engineVars, sentence, ret, out>>

NextDisk ==
    \/ injectPath
    \/ initFromDisk
    \/ process
    \/ writeFiles

SpecDisk == InitDisk /\ [][NextDisk]_vars

(***************************************************************************)
(* findEventNoun run on its own.                                           *)
(***************************************************************************)
\* the words of the sentences findEventNoun is run on
NounVocabulary == {W_mon, W_call, W_tea, W_at}

\* the literals of an eventNoun pattern list with two nouns
NounWords == {W_call, W_tea}

\* the eventNoun spans of a token list, in scan order
eventNounSpans(toks) ==
    LET hits == SelectSeq(toks, LAMBDA w : w \in NounWords)
    IN  [i \in 1..Len(hits) |-> Entity(hits[i], "eventNoun")]

\* the arguments process() hands to findEventNoun for a text with a date
nounArgs(t) ==
    [text |-> t, eventNouns |-> eventNounSpans(split(t)), selectedVerbIndex |-> indexOf(t, W_mon)]

\* "at at at ...": as many prepositions as the initial distance
Filler == [i \in 1..(3 * InitialDistance) |-> <<"a", "t", " ">>[((i - 1) % 3) + 1]]

\* the same for a long sentence: a date, the prepositions, then the nouns ws
longNounArgs(ws) ==
    [text |-> W_mon \o <<" ">> \o Filler \o joinWords(ws),
     eventNouns |-> eventNounSpans(ws),
     selectedVerbIndex |-> 0]

InitNoun ==
    /\ InitEngineIdle
    /\ args \in {nounArgs(t) : t \in {x \in Texts(NounVocabulary) : indexOf(x, W_mon) >= 0}}
                 \cup {longNounArgs(ws) : ws \in SeqsUpTo(NounWords, 2) \ {<<>>}}
    /\ out = [done |-> FALSE, selectedEventNoun |-> NotFound]

nounStep ==
    /\ ~out.done
    /\ out' = [done |-> TRUE,
               selectedEventNoun |->
                   findEventNoun(args.text, args.eventNouns, args.selectedVerbIndex)]
    /\ UNCHANGED <<engineVars, sentence, ret, args>>

NextNoun == nounStep

SpecNoun == InitNoun /\ [][NextNoun]_vars

(***************************************************************************)
(* The event-noun selection of process() run on its own.                   *)
(***************************************************************************)
\* the words of the sentences the selection is run on: two verbs
VerbVocabulary == {W_mon, W_call, W_tea, W_plan, W_book}

\* sentence texts one token longer: room for two verb phrases and a date
LongerTexts(vocab) == {joinWords(ws) : ws \in SeqsUpTo(vocab, MaxTokens + 1)}

\* the sentences that get past the date check of line 117
datedTexts(texts) ==
    {t \in texts : ~noDates(filterDates(getAuxiliaryStructures(t).mainCustomEntities))}

InitVerb ==
    /\ InitEngineIdle
    /\ args \in {[value |-> t] : t \in datedTexts(LongerTexts(VerbVocabulary))}
    /\ out = [done |-> FALSE, sel |-> <<>>]

selectStep ==
    /\ ~out.done
    /\ out' = [done |-> TRUE,
               sel |-> LET aux == getAuxiliaryStructures(args.value)
                       IN  selectEventNoun(aux, filterDates(aux.mainCustomEntities))]
    /\ UNCHANGED <<engineVars, sentence, ret, args>>

NextVerb == selectStep

SpecVerb == InitVerb /\ [][NextVerb]_vars

(***************************************************************************)
(* The adjacency walks and the title of process() run on their own.        *)
(***************************************************************************)
\* the words of the sentences the walks are run on: every tag the walk reads
WalkVocabulary == {W_mon, W_call, W_tea, W_at, W_Ed, W_plan, W_my, W_big}

\* what process() hands to findAdjAttributes and getEventTitle (lines 104-134)
walkArgs(value) ==
    LET aux == getAuxiliaryStructures(value)
        sel == selectEventNoun(aux, filterDates(aux.mainCustomEntities))
    IN  [tokens |-> aux.tokens,
         pos |-> aux.pos,
         selectedEventNoun |-> sel.selectedEventNoun,
         selectedProperName |->
             findProperName(value, filterProperNames(aux.secondaryCustomEntities),
                            sel.selectedEventNoun),
         selectedDateIndex |-> sel.selectedDateIndex]

\* the sentences on which process() reaches the walks: a date, an event noun,
\* and no exception from findProperName
walkedTexts(texts) ==
    {t \in datedTexts(texts) :
        LET aux == getAuxiliaryStructures(t)
        IN  /\ ~selectEventNoun(aux, filterDates(aux.mainCustomEntities)).null
            /\ walkArgs(t).selectedProperName.status # "throw"}

InitWalk ==
    /\ InitEngineIdle
    /\ args \in {walkArgs(t) : t \in walkedTexts(Texts(WalkVocabulary))}
    /\ out = [stage |-> "start", backwardsAdjAttributes |-> NoAttributes,
              forwardAdjAttributes |-> NoAttributes, eventTitle |-> <<>>]

\* line 137
walkBackward ==
    /\ out.stage = "start"
    /\ out' = [out EXCEPT !.stage = "backward",
                          !.backwardsAdjAttributes =
                              findAdjAttributes(args.tokens, args.pos, args.selectedEventNoun,
                                                args.selectedProperName,
                                                args.selectedEventNoun.index,
                                                args.selectedDateIndex, TRUE)]
    /\ UNCHANGED <<engineVars, sentence, ret, args>>

\* line 139
walkForward ==
    /\ out.stage = "backward"
    /\ out' = [out EXCEPT !.stage = "forward",
                          !.forwardAdjAttributes =
                              findAdjAttributes(args.tokens, args.pos, args.selectedEventNoun,
                                                args.selectedProperName,
                                                args.selectedEventNoun.index,
                                                args.selectedDateIndex, FALSE)]
    /\ UNCHANGED <<engineVars, sentence, ret, args>>

\* line 153
titleStep ==
    /\ out.stage = "forward"
    /\ out' = [out EXCEPT !.stage = "title",
                          !.eventTitle =
                              getEventTitle(out.backwardsAdjAttributes, out.forwardAdjAttributes,
                                            args.selectedEventNoun, args.selectedProperName)]
    /\ UNCHANGED <<engineVars, sentence, ret, args>>

NextWalk ==
    \/ walkBackward
    \/ walkForward
    \/ titleStep

SpecWalk == InitWalk /\ [][NextWalk]_vars

(***************************************************************************)
(* The engine on longer sentences about a person.                          *)
(***************************************************************************)
\* the words of the sentences: a date, an event noun, a preposition, a name
PersonVocabulary == {W_mon, W_call, W_at, W_Ed}

\* the constructor, and a sentence of the caller's of up to MaxTokens + 1 words
InitPerson ==
    /\ ready = FALSE
    /\ pluginPath = "unset"
    /\ customPatterns = <<>>
    /\ secondaryCustomPatterns = <<>>
    /\ mainLearned = <<>>
    /\ secondaryLearned = <<>>
    /\ sentence \in {NewSentence(t) : t \in LongerTexts(PersonVocabulary)}
    /\ ret = NoCall
    /\ args = <<>>
    /\ out = <<>>

SpecPerson == InitPerson /\ [][Next]_vars

(***************************************************************************)
(* The engine shared by the calls on two independent sentences.            *)
(***************************************************************************)
\* the texts of the two sentences: an event noun with a date, a verb phrase
\* with a date, and a sentence without a date
PairTexts ==
    {joinWords(<<W_call, W_mon>>), joinWords(<<W_plan, W_tea, W_mon>>), joinWords(<<W_tea>>)}

\* the constructor and two sentences of the caller's: the second one is kept
\* in args and what the last call on it returned in out
InitPair ==
    /\ ready = FALSE
    /\ pluginPath = "unset"
    /\ customPatterns = <<>>
    /\ secondaryCustomPatterns = <<>>
    /\ mainLearned = <<>>
    /\ secondaryLearned = <<>>
    /\ sentence \in {NewSentence(t) : t \in PairTexts}
    /\ ret = NoCall
    /\ args \in {[sentence |-> NewSentence(t)] : t \in PairTexts}
    /\ out = NoCall

\* process(sentence) called on the second sentence
processOther ==
    \E ex \in {extract(args.sentence.value)} :
       \E syn \in CheckAnswers, sem \in CheckAnswers, range \in RangeAnswers :
          \E res \in {processCall(ready, args.sentence, ex, syn, sem, range)} :
             /\ out' = res.ret
             /\ args' = [sentence |-> res.sentence]
             /\ mainLearned' = IF res.read THEN readDoc(mainLearned) ELSE mainLearned
             /\ secondaryLearned' = IF res.read THEN readDoc(secondaryLearned)
                                    ELSE secondaryLearned
             /\ UNCHANGED <<ready, pluginPath, customPatterns, secondaryCustomPatterns,
                            sentence, ret>>

NextPair ==
    \/ injectPath
    \/ \E nounFile \in FileStatus, properNameFile \in FileStatus : init(nounFile, properNameFile)
    \/ process
    \/ processOther

SpecPair == InitPair /\ [][NextPair]_vars

(***************************************************************************)
(* Calendar view: packing the events of each day into rows without         *)
(* overlaps (CalendarViewController, src/unnamed/part_000).                *)
(***************************************************************************)
\* how many events the calendar view is given
MaxEvents == 3

\* the last day of the displayed range, the first being day 0 (dayDiff)
LastDay == 1

\* time slots in a day; an event starts in one slot and ends at the start of a later one
SlotsPerDay == 2

\* the longest event, in slots
LongestEvent == 2

\* the start and end of the events: an event may end on the day after it starts
EventSpans ==
    {[start |-> s, end |-> e] : s \in 0..((LastDay + 1) * SlotsPerDay - 1),
                                e \in 1..((LastDay + 1) * SlotsPerDay + LongestEvent)}

\* the event lists: distinct CloudEvent objects, in any order of start
EventLists ==
    UNION {[1..n -> {sp \in EventSpans : sp.start < sp.end /\ sp.end - sp.start <= LongestEvent}] :
              n \in 0..MaxEvents}

\* a CloudEvent: its identity and its cloudEventStartDate / cloudEventEndDate
CloudEvent(i, span) == [id |-> i, start |-> span.start, end |-> span.end]

\* DateRange.overlaps: the two ranges share more than an instant
overlaps(a, b) == a.start < b.end /\ b.start < a.end

\* Array.prototype.contains
contains(list, e) == \E i \in 1..Len(list) : list[i] = e

\* Array.prototype.remove
remove(list, e) == SelectSeq(list, LAMBDA x : x # e)

\* Misc.sortCloudEventList: some ordering of the same events
sortCloudEventList(list) ==
    {s \in [1..Len(list) -> {list[i] : i \in 1..Len(list)}] :
        \A i \in 1..Len(list) : \E j \in 1..Len(list) : s[j] = list[i]}

\* eventDate.toLocaleDateString() == date.toLocaleDateString()
filterEventsWithStartDate(eventList, date) ==
    SelectSeq(eventList, LAMBDA event : event.start \div SlotsPerDay = date)

RECURSIVE propagateFor(_, _, _, _)
\* the for loop of propagateListOverlapCheck for the event at position p
\* (1-based), i being the position checked next
propagateFor(noOverlapList, toCheckList, p, i) ==
    IF i > Len(noOverlapList)
    THEN [noOverlapList |-> noOverlapList, toCheckList |-> toCheckList]
    ELSE IF overlaps(noOverlapList[p], noOverlapList[i])
        THEN propagateFor(remove(noOverlapList, noOverlapList[i]),
                          Append(toCheckList, noOverlapList[i]), p, i)
    ELSE propagateFor(noOverlapList, toCheckList, p, i + 1)

RECURSIVE propagateForEach(_, _, _)
\* the forEach of propagateListOverlapCheck from position p on
propagateForEach(noOverlapList, toCheckList, p) ==
    IF p > Len(noOverlapList)
    THEN [noOverlapList |-> noOverlapList, toCheckList |-> toCheckList]
    ELSE LET r == propagateFor(noOverlapList, toCheckList, p, p + 1)
         IN  propagateForEach(r.noOverlapList, r.toCheckList, p + 1)

\* the propagation left out: the row is kept as it was collected
propagateNothing(noOverlapList, toCheckList) == [noOverlapList |-> noOverlapList, toCheckList |-> toCheckList]

propagateListOverlapCheck(noOverlapList, toCheckList) == propagateForEach(noOverlapList, toCheckList, 1)

RECURSIVE collectFor(_, _, _, _, _)
\* the for loop of checkOverlaps: the events after dayEvent that are still to
\* check and do not overlap it join its row
collectFor(sortedDayEvents, i, dayEvent, noOverlapList, toCheckList) ==
    IF i > Len(sortedDayEvents)
    THEN [noOverlapList |-> noOverlapList, toCheckList |-> toCheckList]
    ELSE IF ~contains(toCheckList, sortedDayEvents[i])
        THEN collectFor(sortedDayEvents, i + 1, dayEvent, noOverlapList, toCheckList)
    ELSE IF overlaps(dayEvent, sortedDayEvents[i])
        THEN collectFor(sortedDayEvents, i + 1, dayEvent, noOverlapList, toCheckList)
    ELSE collectFor(sortedDayEvents, i + 1, dayEvent,
                    Append(noOverlapList, sortedDayEvents[i]),
                    remove(toCheckList, sortedDayEvents[i]))

RECURSIVE checkForEach(_, _, _, _)
\* the forEach of checkOverlaps from position k on
checkForEach(sortedDayEvents, k, toCheckList, eventRows) ==
    IF k > Len(sortedDayEvents) THEN eventRows
    ELSE IF ~contains(toCheckList, sortedDayEvents[k])
        THEN checkForEach(sortedDayEvents, k + 1, toCheckList, eventRows)
    ELSE LET c == collectFor(sortedDayEvents, k + 1, sortedDayEvents[k],
                             <<sortedDayEvents[k]>>, remove(toCheckList, sortedDayEvents[k]))
             r == propagateListOverlapCheck(c.noOverlapList, c.toCheckList)
         IN  checkForEach(sortedDayEvents, k + 1, r.toCheckList,
                          Append(eventRows, r.noOverlapList))

\* checkOverlaps: the rows stored for the day, given the sorted events of the day
checkOverlaps(sortedDayEvents) == checkForEach(sortedDayEvents, 1, sortedDayEvents, <<>>)

\* the calendar view's event list; out holds the date the loop of
\* manageEventOverlap is at and noOverlapMap, the rows of the days done
InitCalendar ==
    /\ InitEngineIdle
    /\ args \in {[eventList |-> [i \in 1..Len(l) |-> CloudEvent(i, l[i])]] : l \in EventLists}
    /\ out = [date |-> 0, noOverlapMap |-> <<>>]

\* one iteration of the loop of manageEventOverlap (lines 116-120)
manageEventOverlap ==
    /\ out.date <= LastDay
    /\ \E sortedDayEvents \in sortCloudEventList(filterEventsWithStartDate(args.eventList, out.date)) :
          out' = [date |-> out.date + 1,
                  noOverlapMap |-> Append(out.noOverlapMap, checkOverlaps(sortedDayEvents))]
    /\ UNCHANGED <<engineVars, sentence, ret, args>>

NextCalendar == manageEventOverlap

SpecCalendar == InitCalendar /\ [][NextCalendar]_vars

(***************************************************************************)
(* Properties.                                                             *)
(***************************************************************************)
Called(name) == \E i \in 1..Len(ret.calls) : ret.calls[i] = name

TimesCalled(name) == Cardinality({i \in 1..Len(ret.calls) : ret.calls[i] = name})

\* the last call was process() on a ready engine
Processed == ret.op = "process" /\ ~ret.warned

\* C1 (idempotence): every process() call on a ready engine to which
\* syntacticCheck answers an already processed event returns null, asks no
\* other collaborator (no semanticCheck, no createNewEvent, so no duplicate
\* event) and leaves the sentence as it was; this holds of every such step,
\* so of every repetition of the call.
C1_Idempotence ==
    [][(ready /\ ret'.op = "process" /\ ret'.syn # Null /\ ret'.syn.processed)
        => /\ ret'.outcome = "null"
           /\ ret'.calls = <<"syntacticCheck">>
           /\ ret'.event = Null
           /\ sentence' = sentence]_vars

C1_Witness ==
    /\ Processed
    /\ ret.syn # Null /\ ret.syn.processed
    /\ ret.outcome = "null"
    /\ extract(sentence.value).status = "ok"

\* C2 as claimed: whenever semanticCheck was asked and answered an existing
\* event E (any E), process() returns {selection, event: E} and createNewEvent
\* is not called.
C2_AnyExistingEvent ==
    (Processed /\ Called("semanticCheck") /\ ret.sem # Null)
        => /\ ret.outcome = "result"
           /\ ret.event = ret.sem
           /\ ~Called("createNewEvent")

\* C2 (syntactic-edit invariance) as amended: whenever semanticCheck was asked
\* and answered an existing event E, createNewEvent is not called; if E is not
\* yet processed, process() returns {selection, event: E}; if E is already
\* processed, process() returns null.
C2_SameEventUnlessProcessed ==
    (Processed /\ Called("semanticCheck") /\ ret.sem # Null)
        => /\ ~Called("createNewEvent")
           /\ IF ret.sem.processed
              THEN ret.outcome = "null" /\ ret.event = Null
              ELSE ret.outcome = "result" /\ ret.event = ret.sem /\ Len(ret.selection) > 0

C2_Witness ==
    /\ Processed
    /\ Called("semanticCheck")
    /\ ret.sem # Null /\ ~ret.sem.processed
    /\ ret.outcome = "result" /\ ret.event = ret.sem

\* C3 (semantic-edit sensitivity): whenever syntacticCheck answered null,
\* extraction succeeded and semanticCheck answered null too, createNewEvent is
\* called exactly once, last, and process() returns {selection, event} with the
\* event createNewEvent returned.
C3_NewEventCreated ==
    (Processed /\ Called("semanticCheck") /\ ret.sem = Null)
        => /\ ret.syn = Null
           /\ TimesCalled("createNewEvent") = 1
           /\ last(ret.calls) = "createNewEvent"
           /\ ret.outcome = "result"
           /\ ret.event = NewEvent
           /\ Len(ret.selection) > 0

C3_Witness ==
    /\ Processed
    /\ Called("semanticCheck") /\ ret.sem = Null
    /\ ret.event = NewEvent

\* C4 (not-ready guard): while init() has not completed successfully, every
\* process() call returns null with the not-ready warning, asks no collaborator
\* and leaves the sentence as it was; injectPath and a failed init() leave the
\* engine not ready; once ready the engine stays ready and no later process()
\* call takes the guard.
C4_NotReadyGuard ==
    [][/\ (~ready /\ ret'.op = "process")
            => /\ ret'.outcome = "null"
               /\ ret'.warned
               /\ ret'.calls = <<>>
               /\ sentence' = sentence
       /\ (~ready /\ (ret'.op = "injectPath" \/ (ret'.op = "init" /\ ret'.outcome = "throw")))
            => ~ready'
       /\ ready => ready'
       /\ (ready /\ ret'.op = "process") => ~ret'.warned]_vars

\* process() was refused after injectPath alone
C4_Witness ==
    /\ ~ready
    /\ pluginPath = "set"
    /\ ret.op = "process" /\ ret.warned /\ ret.outcome = "null"

\* no tagged span of the sentence is of a date category
NoDateSpan(value) ==
    LET aux == getAuxiliaryStructures(value)
        spans == aux.mainCustomEntities \o aux.secondaryCustomEntities
    IN  \A i \in 1..Len(spans) : spans[i].type \notin DateCategoryTypes

HasSpan(value, type) ==
    LET aux == getAuxiliaryStructures(value)
        spans == aux.mainCustomEntities \o aux.secondaryCustomEntities
    IN  \E i \in 1..Len(spans) : spans[i].type = type

\* C5 (mandatory date anchor): a process() call on a sentence none of whose
\* tagged spans is of a date category returns null, whatever event nouns, verbs
\* or names were tagged, and calls neither semanticCheck nor createNewEvent.
C5_NoDateNoEvent ==
    (ret.op = "process" /\ NoDateSpan(sentence.value))
        => /\ ret.outcome = "null"
           /\ ~Called("semanticCheck")
           /\ ~Called("createNewEvent")

\* a ready engine, a sentence with an event noun and no date, not matched syntactically
C5_Witness ==
    /\ Processed
    /\ ret.syn = Null
    /\ NoDateSpan(sentence.value)
    /\ HasSpan(sentence.value, "eventNoun")
    /\ ret.outcome = "null"

\* C6 (selection ordering): the selection of every non-null result is sorted
\* non-decreasing by index, also when the event title was computed from the
\* backward title spans.
C6_SelectionSorted ==
    ret.outcome = "result"
        => \A i \in 1..(Len(ret.selection) - 1) :
              ret.selection[i].index <= ret.selection[i + 1].index

\* a result whose title was computed from two backward title spans
C6_Witness ==
    /\ ret.outcome = "result"
    /\ Called("semanticCheck")
    /\ extract(sentence.value).backward >= 2
    /\ Len(ret.selection) >= 4

\* C7 (selection offset validity): in every returned selection each span's
\* index is an offset into the lower-cased text, 0 <= index < length, at which
\* the text starts with the span's value.
C7_OffsetsValid ==
    ret.outcome = "result"
        => \A i \in 1..Len(ret.selection) :
              /\ ret.selection[i].index >= 0
              /\ ret.selection[i].index < Len(sentence.value)
              /\ startsWithAt(toLowerCase(sentence.value), ret.selection[i].value,
                              ret.selection[i].index)

CountOf(spans, types) == Cardinality({i \in 1..Len(spans) : spans[i].type \in types})

\* the first span of one of the types, as a list of at most one
FirstOf(spans, types) ==
    LET hits == {i \in 1..Len(spans) : spans[i].type \in types}
    IN  IF hits = {} THEN <<>> ELSE <<spans[CHOOSE i \in hits : \A j \in hits : i <= j]>>

\* C8 (date cleanup): cleanJunkDates returns at most one date-component span
\* and at most one time span, and when the input has at least two of each the
\* survivors are exactly the first span of each category.
C8_AtMostOneOfEach ==
    out.done
        => /\ CountOf(out.cleanDates, dateComponentPatterns) <= 1
           /\ CountOf(out.cleanDates, timePatterns) <= 1
           /\ (CountOf(args.dates, dateComponentPatterns) >= 2
                 /\ CountOf(args.dates, timePatterns) >= 2)
              => \/ out.cleanDates = FirstOf(args.dates, dateComponentPatterns)
                                     \o FirstOf(args.dates, timePatterns)
                 \/ out.cleanDates = FirstOf(args.dates, timePatterns)
                                     \o FirstOf(args.dates, dateComponentPatterns)

\* the first letter of the candidate's own name in the case-preserving text
OwnFirstChar(text, properName) ==
    LET pIndex == indexOf(toLowerCase(text), properName.value)
        splitValue == split(properName.value)
    IN  IF Len(splitValue) = 1 THEN charAt(text, pIndex)
        ELSE charAt(text, pIndex + Len(splitValue[1]) + 1)

\* C9 (person case filter): findProperName selects a candidate only if the
\* first letter of its own name is not lower-case, and when every candidate's
\* first letter is lower-case the result is null.
C9_CaseFilter ==
    out.done
        => /\ out.selectedProperName.status = "ok"
               => \E i \in 1..Len(args.properNames) :
                     /\ ~isLowerCase(OwnFirstChar(args.text, args.properNames[i]))
                     /\ out.selectedProperName.index
                            = indexOf(toLowerCase(args.text), args.properNames[i].value)
                     /\ out.selectedProperName.value = last(split(args.properNames[i].value))
           /\ (\A i \in 1..Len(args.properNames) :
                  isLowerCase(OwnFirstChar(args.text, args.properNames[i])))
               => out.selectedProperName.status = "null"

\* C10 (unparsable date abort): every process() call in which the date parser
\* was asked and returned no range ends without a result (it returns
\* undefined), calls neither semanticCheck nor createNewEvent and leaves the
\* sentence, its semantic fields and eventNoun included, as it was.
C10_NoRangeAbort ==
    [][(ret'.op = "process" /\ ret'.range = NoRange
          /\ \E i \in 1..Len(ret'.calls) : ret'.calls[i] = "parse")
        => /\ ret'.outcome = "undefined"
           /\ ret'.event = Null
           /\ ret'.selection = <<>>
           /\ ret'.calls = <<"syntacticCheck", "parse">>
           /\ sentence' = sentence]_vars

C10_Witness ==
    /\ Processed
    /\ Called("parse")
    /\ ret.range = NoRange
    /\ ret.syn = Null
    /\ ret.outcome = "undefined"
    /\ ~sentence.injected

\* a pattern file is missing or is not valid JSON
BadDisk(d) == d.nounFile # "ok" \/ d.properNameFile # "ok"

\* C11 (configuration failure): every init() call made while either pattern
\* file is missing or malformed fails with the error propagated to the caller
\* and leaves the ready flag, the stored pattern rules and both taggers as
\* they were before the call, so an engine that was not ready stays not ready;
\* and while no init() has succeeded, process() returns null with the warning.
C11_FailedInitKeepsEngine ==
    [][/\ (ret'.op = "init" /\ args' = args /\ BadDisk(args))
            => /\ ret'.outcome = "throw"
               /\ ready' = ready
               /\ customPatterns' = customPatterns
               /\ secondaryCustomPatterns' = secondaryCustomPatterns
               /\ mainLearned' = mainLearned
               /\ secondaryLearned' = secondaryLearned
               /\ (~ready => ~ready')
       /\ (~ready /\ ret'.op = "process")
            => ret'.outcome = "null" /\ ret'.warned]_vars

\* init() has just failed on a malformed proper-name file next to a good noun
\* file, with the path injected, on an engine that was never ready
C11_Witness ==
    /\ pluginPath = "set"
    /\ args.nounFile = "ok" /\ args.properNameFile = "malformed"
    /\ ret.op = "init" /\ ret.outcome = "throw"
    /\ ~ready
    /\ customPatterns = <<>> /\ secondaryLearned = <<>>

\* position of the first call of that name in the last call's record, 0 if none
CallPos(name) ==
    LET hits == {i \in 1..Len(ret.calls) : ret.calls[i] = name}
    IN  IF hits = {} THEN 0 ELSE CHOOSE i \in hits : \A j \in hits : i <= j

\* C12 (creation guard and ordering): within one process() call createNewEvent
\* is invoked at most once, and only after syntacticCheck and then
\* semanticCheck were both invoked, in that order, and both answered null;
\* semanticCheck is invoked at most once and only if syntacticCheck, invoked
\* before it, answered null.
C12_CreationGuard ==
    ret.op = "process"
        => /\ TimesCalled("createNewEvent") <= 1
           /\ TimesCalled("semanticCheck") <= 1
           /\ TimesCalled("syntacticCheck") <= 1
           /\ Called("semanticCheck")
                => /\ ret.syn = Null
                   /\ CallPos("syntacticCheck") > 0
                   /\ CallPos("syntacticCheck") < CallPos("semanticCheck")
           /\ Called("createNewEvent")
                => /\ ret.syn = Null /\ ret.sem = Null
                   /\ CallPos("syntacticCheck") > 0
                   /\ CallPos("syntacticCheck") < CallPos("semanticCheck")
                   /\ CallPos("semanticCheck") < CallPos("createNewEvent")
                   /\ last(ret.calls) = "createNewEvent"

\* an event was created on the verb path, after both checks answered null
C12_Witness ==
    /\ Processed
    /\ ret.calls = <<"syntacticCheck", "parse", "semanticCheck", "createNewEvent">>
    /\ ret.syn = Null /\ ret.sem = Null
    /\ ret.event = NewEvent
    /\ extract(sentence.value).viaVerb

\* C13 (reuse without re-keying): every process() call to which syntacticCheck
\* answers an event E that is not yet processed, and whose extraction (it got
\* as far as the date parser) and date parsing succeed, returns {selection, event: E}, calls neither semanticCheck
\* nor createNewEvent, and leaves the sentence, its injected semantic fields
\* and eventNoun included, as it was.
C13_ReuseWithoutRekeying ==
    [][(ready /\ ret'.op = "process" /\ ret'.syn # Null /\ ~ret'.syn.processed
          /\ (\E i \in 1..Len(ret'.calls) : ret'.calls[i] = "parse")
          /\ ret'.range # NoRange)
        => /\ ret'.outcome = "result"
           /\ ret'.event = ret'.syn
           /\ Len(ret'.selection) > 0
           /\ ret'.calls = <<"syntacticCheck", "parse">>
           /\ sentence' = sentence]_vars

\* a sentence never keyed, matched syntactically and returned with its event
C13_Witness ==
    /\ Processed
    /\ ret.syn # Null /\ ~ret.syn.processed
    /\ ret.outcome = "result" /\ ret.event = ret.syn
    /\ Len(ret.selection) > 0
    /\ ~sentence.injected

\* distance of the i-th candidate's first occurrence from the date anchor
CandidateDistance(i) == Abs(indexOf(args.text, args.eventNouns[i].value) - args.selectedVerbIndex)

\* the i-th candidate is the first, in scan order, at the minimum distance
FirstNearest(i) ==
    /\ \A j \in 1..Len(args.eventNouns) : CandidateDistance(i) <= CandidateDistance(j)
    /\ \A j \in 1..(i - 1) : CandidateDistance(j) > CandidateDistance(i)

\* C14 (nearest event noun): for a non-empty candidate list findEventNoun
\* returns the first candidate in scan order among those whose first-occurrence
\* offset is nearest to the date anchor, and never the not-found sentinel
\* (index -1), whatever the sentence length.
C14_NearestEventNoun ==
    (out.done /\ Len(args.eventNouns) > 0)
        => /\ out.selectedEventNoun.index # -1
           /\ \E i \in 1..Len(args.eventNouns) :
                 /\ FirstNearest(i)
                 /\ out.selectedEventNoun.value = args.eventNouns[i].value
                 /\ out.selectedEventNoun.index = indexOf(args.text, args.eventNouns[i].value)
                 /\ out.selectedEventNoun.type = args.eventNouns[i].type

\* the same on the sentences in which some candidate is nearer than the initial distance
C14_NearestWithinDistance ==
    (out.done /\ \E k \in 1..Len(args.eventNouns) : CandidateDistance(k) < InitialDistance)
        => \E i \in 1..Len(args.eventNouns) :
              /\ FirstNearest(i)
              /\ out.selectedEventNoun.value = args.eventNouns[i].value
              /\ out.selectedEventNoun.index = indexOf(args.text, args.eventNouns[i].value)

\* the tagged spans of one type in the sentence the selection was run on
SpansOf(type) ==
    SelectSeq(getAuxiliaryStructures(args.value).mainCustomEntities, LAMBDA e : e.type = type)

\* distance of a span's first occurrence from the date anchor
SpanDistance(e) ==
    LET text == toLowerCase(args.value)
    IN  Abs(indexOf(text, e.value) - indexOf(text, SpansOf("date")[1].value))

\* the i-th intentional-verb match is the first, in scan order, nearest to the anchor
FirstNearestVerb(i) ==
    LET ms == SpansOf("intentionalVerb")
    IN  /\ \A j \in 1..Len(ms) : SpanDistance(ms[i]) <= SpanDistance(ms[j])
        /\ \A j \in 1..(i - 1) : SpanDistance(ms[j]) > SpanDistance(ms[i])

\* the verb of a match: its first word tagged VERB
VerbOf(e) ==
    LET ws == split(e.value)
    IN  ws[CHOOSE i \in 1..Len(ws) : posOf(ws[i]) = "VERB" /\ \A j \in 1..(i - 1) : posOf(ws[j]) # "VERB"]

\* C15 (verb fallback): the intentional-verb path is taken only when there is
\* no event-noun candidate; on that path, without an intentional-verb match
\* the selection ends in null, and otherwise the event noun is the phrase
\* '<verb of the selected match> <last word of the selected match>', the
\* selected match being the intentional-verb match nearest to the date anchor.
C15_VerbFallback ==
    out.done
        => /\ out.sel.viaVerb => Len(SpansOf("eventNoun")) = 0
           /\ (out.sel.viaVerb /\ Len(SpansOf("intentionalVerb")) = 0) => out.sel.null
           /\ (out.sel.viaVerb /\ Len(SpansOf("intentionalVerb")) > 0)
                => /\ ~out.sel.null
                   /\ \E i \in 1..Len(SpansOf("intentionalVerb")) :
                         /\ FirstNearestVerb(i)
                         /\ out.sel.selectedEventNoun.value
                                = VerbOf(SpansOf("intentionalVerb")[i]) \o <<" ">>
                                  \o last(split(SpansOf("intentionalVerb")[i].value))

\* the rendering of one candidate on its own: its preposition if it has one,
\* 'with' otherwise, then its name capitalized
RenderedPerson(properName) ==
    LET splitValue == split(properName.value)
    IN  IF Len(splitValue) = 1 THEN W_with \o <<" ">> \o capitalize(splitValue[1])
        ELSE splitValue[1] \o <<" ">> \o capitalize(splitValue[2])

\* C16 (person rendering): when findProperName selects a candidate, its
\* parsedValue is that candidate's own rendering, '<its preposition> <Name>' or
\* 'with <Name>', whatever the other candidates of the list are.
C16_PersonRendering ==
    (out.done /\ out.selectedProperName.status = "ok")
        => \E i \in 1..Len(args.properNames) :
              /\ out.selectedProperName.index
                     = indexOf(toLowerCase(args.text), args.properNames[i].value)
              /\ out.selectedProperName.parsedValue = RenderedPerson(args.properNames[i])

\* 0-based token position of the event noun, -1 if it is not a token
NounToken == seqIndexOf(args.tokens, args.selectedEventNoun.value)

\* 0-based token position of the k-th step of a walk
WalkPos(k, backward) == IF backward THEN NounToken - k ELSE NounToken + k

\* the length of the maximal run of tokens tagged NOUN, ADJ, ADP or PRON next
\* to the event noun on one side
RunLength(backward) ==
    CHOOSE n \in 0..Len(args.tokens) :
        /\ \A k \in 1..n : tagAt(args.pos, WalkPos(k, backward)) \in WalkTags
        /\ tagAt(args.pos, WalkPos(n + 1, backward)) \notin WalkTags

RECURSIVE ComputedOffset(_, _)
\* the offset the walk computes for its k-th word
ComputedOffset(k, backward) ==
    IF k = 0 THEN 0
    ELSE LET w == tokenAt(args.tokens, WalkPos(k, backward))
         IN  ComputedOffset(k - 1, backward)
             + (IF backward THEN args.selectedEventNoun.index - (Len(w) + 1)
                ELSE args.selectedEventNoun.index + (Len(w) + 1))

\* the k-th word of the run is the person's name or is computed at the date anchor
AbortsAt(k, backward) ==
    \/ /\ args.selectedProperName.status = "ok"
       /\ tokenAt(args.tokens, WalkPos(k, backward)) = args.selectedProperName.value
    \/ ComputedOffset(k, backward) = args.selectedDateIndex

Aborts(backward) == \E k \in 1..RunLength(backward) : AbortsAt(k, backward)

\* the words of the run in walk order, without its trailing ADP and PRON words
StrippedRun(backward) ==
    LET n == RunLength(backward)
        keep == {k \in 1..n : tagAt(args.pos, WalkPos(k, backward)) \notin {"ADP", "PRON"}}
        m == IF keep = {} THEN 0 ELSE CHOOSE k \in keep : \A j \in keep : j <= k
    IN  [k \in 1..m |-> tokenAt(args.tokens, WalkPos(k, backward))]

\* the walk of that direction was run, and what it returned
Walked(backward) == IF backward THEN out.stage # "start" ELSE out.stage \in {"forward", "title"}

WalkResult(backward) == IF backward THEN out.backwardsAdjAttributes ELSE out.forwardAdjAttributes

ValuesOf(attrs) == [i \in 1..Len(attrs) |-> attrs[i].value]

\* C17 (adjacency-walk abort): in either direction, if a word of the run next
\* to the event noun equals the resolved person's name, or its computed offset
\* equals the date anchor's, findAdjAttributes returns null for that
\* direction, whatever it collected before; a direction that has no such word
\* returns its own words whether or not the other direction aborted.
C17_WalkAbort ==
    \A backward \in BOOLEAN :
        Walked(backward)
            => /\ Aborts(backward) => WalkResult(backward).null
               /\ (~Aborts(backward) /\ NounToken > 0 /\ Len(StrippedRun(backward)) > 0)
                    => /\ ~WalkResult(backward).null
                       /\ ValuesOf(WalkResult(backward).items) = StrippedRun(backward)

\* the forward walk collected a word, then met the person's name and returned
\* null, and the backward walk returned its word
C17_Witness ==
    /\ out.stage = "forward"
    /\ RunLength(FALSE) >= 2
    /\ ~AbortsAt(1, FALSE)
    /\ AbortsAt(2, FALSE)
    /\ out.forwardAdjAttributes.null
    /\ ~out.backwardsAdjAttributes.null

\* C18 (adjacency-walk result): for each direction and every token position of
\* the event noun, the first included, a walk without abort returns the
\* maximal run of NOUN, ADJ, ADP or PRON tokens next to the event noun on that
\* side, in walk order, without its trailing ADP and PRON words, and null when
\* nothing is left; a returned list never ends in an ADP or PRON word.
C18_WalkResult ==
    \A backward \in BOOLEAN :
        (Walked(backward) /\ NounToken >= 0 /\ ~Aborts(backward))
            => /\ WalkResult(backward).null <=> Len(StrippedRun(backward)) = 0
               /\ ~WalkResult(backward).null
                    => /\ ValuesOf(WalkResult(backward).items) = StrippedRun(backward)
                       /\ last(WalkResult(backward).items).type \notin {"ADP", "PRON"}

\* the words of the title, in reading order
TitleWords ==
    (IF out.backwardsAdjAttributes.null THEN <<>>
     ELSE reverse(ValuesOf(out.backwardsAdjAttributes.items)))
    \o <<args.selectedEventNoun.value>>
    \o (IF out.forwardAdjAttributes.null THEN <<>>
        ELSE ValuesOf(out.forwardAdjAttributes.items))
    \o (IF args.selectedProperName.status = "ok"
        THEN <<args.selectedProperName.parsedValue>>
        ELSE <<>>)

\* C19 (title assembly): the title is the backward words in reading order, the
\* event noun, the forward words in walk order and the rendered person, each
\* two consecutive parts separated by exactly one space, with no leading or
\* trailing space, whichever of backward words, forward words and person are
\* present.
C19_TitleAssembly ==
    out.stage = "title" => out.eventTitle = joinWords(TitleWords)

\* the same on the sentences without forward words
C19_TitleWithoutForwardWords ==
    (out.stage = "title" /\ out.forwardAdjAttributes.null)
        => out.eventTitle = joinWords(TitleWords)

\* C20 (no exceptions from processing): every process() call on a ready
\* engine ends by returning null, returning without a value, or returning
\* {selection, event}, whatever the sentence's proper-name candidates and the
\* collaborators' answers are; it never raises an exception.
C20_NoException ==
    (ret.op = "process" /\ ~ret.warned)
        => ret.outcome \in {"null", "undefined", "result"}

\* what the call recorded in r returns when it is run alone on sentence sent
\* by a ready engine, with the answers the collaborators gave it
ResultAlone(sent, r) == processCall(TRUE, sent, extract(sent.value), r.syn, r.sem, r.range)

\* the event a call returned is an event a collaborator gave, flag included
EventAsAnswered(r) ==
    r.outcome = "result"
        => /\ r.event \in {r.syn, r.sem, NewEvent}
           /\ r.event \in ExistingEvents \cup {NewEvent}
           /\ ~r.event.processed

\* C21 (process() is read-only on engine state): a process() call, whatever
\* its outcome, leaves the ready flag, the stored pattern rules and the
\* trained taggers as they were, and returns events with the processed flag
\* the collaborators gave them; the engine changes only in injectPath and
\* init(); so a call on one of two independent sentences leaves the other
\* sentence and its result alone, and returns what it returns run alone.
C21_ProcessReadOnly ==
    [][/\ (ret'.op = "process" /\ (ret' # ret \/ sentence' # sentence))
            => /\ UNCHANGED engineVars
               /\ UNCHANGED <<args, out>>
               /\ EventAsAnswered(ret')
               /\ ready => /\ ret' = ResultAlone(sentence, ret').ret
                           /\ sentence' = ResultAlone(sentence, ret').sentence
       /\ (out'.op = "process" /\ (out' # out \/ args' # args))
            => /\ UNCHANGED engineVars
               /\ UNCHANGED <<sentence, ret>>
               /\ EventAsAnswered(out')
               /\ ready => /\ out' = ResultAlone(args.sentence, out').ret
                           /\ args'.sentence = ResultAlone(args.sentence, out').sentence
       /\ (engineVars' # engineVars)
            => /\ ret'.op \in {"injectPath", "init"}
               /\ UNCHANGED <<sentence, args, out>>]_vars

\* both sentences were processed into a new event by the engine as init()
\* left it, the second one last
C21_Witness ==
    /\ ready
    /\ mainLearned = MainRules /\ secondaryLearned = SecondaryRules
    /\ ret.op = "process" /\ ret.outcome = "result" /\ ret.event = NewEvent
    /\ out.op = "process" /\ out.outcome = "result" /\ out.event = NewEvent
    /\ sentence.injected /\ args.sentence.injected
    /\ sentence.value # args.sentence.value

\* how many times an event is placed in the rows of a day
Placements(eventRows, e) ==
    Cardinality({<<r, i>> \in (1..Len(eventRows)) \X (1..MaxEvents + 1) :
                    i <= Len(eventRows[r]) /\ eventRows[r][i] = e})

\* C22 (calendar row packing): in the rows stored for each day, every event
\* that starts that day is in exactly one row, once, the rows hold no other
\* event and no empty row, and no two events of a row overlap.
C22_RowPacking ==
    \A d \in 1..Len(out.noOverlapMap) :
        LET eventRows == out.noOverlapMap[d]
            dayEvents == filterEventsWithStartDate(args.eventList, d - 1)
        IN  /\ \A k \in 1..Len(dayEvents) : Placements(eventRows, dayEvents[k]) = 1
            /\ \A r \in 1..Len(eventRows) :
                  /\ Len(eventRows[r]) > 0
                  /\ \A i \in 1..Len(eventRows[r]) :
                        /\ contains(dayEvents, eventRows[r][i])
                        /\ \A j \in 1..Len(eventRows[r]) :
                              i # j => ~overlaps(eventRows[r][i], eventRows[r][j])

\* day 0 is done: two events joined the first event's row, one of them was
\* pushed back to the to-check list and is alone in the second row
C22_Witness ==
    /\ Len(out.noOverlapMap) >= 1
    /\ Len(out.noOverlapMap[1]) = 2
    /\ Len(out.noOverlapMap[1][1]) = 2
    /\ Len(out.noOverlapMap[1][2]) = 1
    /\ ~overlaps(out.noOverlapMap[1][1][1], out.noOverlapMap[1][2][1])
    /\ overlaps(out.noOverlapMap[1][1][2], out.noOverlapMap[1][2][1])

====
